---- MODULE Spec2Model ----
(***************************************************************************)
(* wsj-scraper: the daily run of wsj_value_fetcher.py (fetch the first row *)
(* of the WSJ USD/CNY table, parse it, upsert it into the "USDCNY"         *)
(* worksheet by date) as a state machine.                                  *)
(*                                                                         *)
(* Text is modelled as a sequence of one-character strings, so that        *)
(* strip(), lower(), the regular expressions and int() are computed on the *)
(* characters as the code computes them.  An optional value (Python's None *)
(* or a value) is a sequence of length 0 or 1.                             *)
(***************************************************************************)
EXTENDS Integers, Sequences, FiniteSets, TLC

(* ------------------------------ text ---------------------------------- *)

None == << >>
Some(x) == << x >>

Digits == {"0","1","2","3","4","5","6","7","8","9"}

Whitespace == {" ", "\t", "\n"}

DigitVal(c) ==
  CASE c = "0" -> 0 [] c = "1" -> 1 [] c = "2" -> 2 [] c = "3" -> 3
    [] c = "4" -> 4 [] c = "5" -> 5 [] c = "6" -> 6 [] c = "7" -> 7
    [] c = "8" -> 8 [] c = "9" -> 9

DigitChar(n) ==
  CASE n = 0 -> "0" [] n = 1 -> "1" [] n = 2 -> "2" [] n = 3 -> "3"
    [] n = 4 -> "4" [] n = 5 -> "5" [] n = 6 -> "6" [] n = 7 -> "7"
    [] n = 8 -> "8" [] n = 9 -> "9"

\* int(s) for a string of decimal digits
RECURSIVE ToInt(_)
ToInt(s) ==
  IF s = << >> THEN 0
  ELSE ToInt(SubSeq(s, 1, Len(s) - 1)) * 10 + DigitVal(s[Len(s)])

\* the decimal digits of n, no padding
RECURSIVE ToStr(_)
ToStr(n) ==
  IF n < 10 THEN << DigitChar(n) >>
  ELSE Append(ToStr(n \div 10), DigitChar(n % 10))

\* s left-padded with "0" to at least w characters
RECURSIVE ZeroPad(_, _)
ZeroPad(s, w) == IF Len(s) >= w THEN s ELSE ZeroPad(<<"0">> \o s, w)

AllDigits(s) == \A i \in 1..Len(s) : s[i] \in Digits

\* str.strip(): leading and trailing whitespace removed
RECURSIVE LStrip(_)
LStrip(s) ==
  IF s # << >> /\ s[1] \in Whitespace THEN LStrip(Tail(s)) ELSE s

RECURSIVE RStrip(_)
RStrip(s) ==
  IF s # << >> /\ s[Len(s)] \in Whitespace
  THEN RStrip(SubSeq(s, 1, Len(s) - 1)) ELSE s

Strip(s) == LStrip(RStrip(s))

\* str.lower() on the ASCII letters the worksheet texts use
LowerChar(c) ==
  CASE c = "A" -> "a" [] c = "C" -> "c" [] c = "D" -> "d" [] c = "E" -> "e"
    [] c = "L" -> "l" [] c = "N" -> "n" [] c = "O" -> "o" [] c = "R" -> "r"
    [] c = "S" -> "s" [] c = "T" -> "t" [] c = "U" -> "u" [] c = "Y" -> "y"
    [] c = "Z" -> "z" [] c = "I" -> "i" [] c = "V" -> "v"
    [] OTHER -> c

Lower(s) == [i \in 1..Len(s) |-> LowerChar(s[i])]

(* ------------------------- the value parsers --------------------------- *)

\* re.sub(r"[^\d\.\-]", "", txt): the characters of txt that are a digit,
\* a dot or a minus sign
KeepNumeric(s) == SelectSeq(s, LAMBDA c : c \in Digits \cup {".", "-"})

\* whether float() accepts a text made of digits, dots and minus signs only:
\* an optional leading minus, at most one dot, at least one digit
FloatOk(s) ==
  LET body == IF s # << >> /\ s[1] = "-" THEN Tail(s) ELSE s
      dots == {i \in 1..Len(body) : body[i] = "."}
  IN  /\ \A i \in 1..Len(body) : body[i] # "-"
      /\ Cardinality(dots) <= 1
      /\ \E i \in 1..Len(body) : body[i] \in Digits

\* leading zeros of an integer part removed, one digit kept
RECURSIVE DropLeadingZeros(_)
DropLeadingZeros(s) ==
  IF Len(s) > 1 /\ s[1] = "0" THEN DropLeadingZeros(Tail(s)) ELSE s

\* trailing zeros of a fractional part removed
RECURSIVE DropTrailingZeros(_)
DropTrailingZeros(s) ==
  IF s # << >> /\ s[Len(s)] = "0"
  THEN DropTrailingZeros(SubSeq(s, 1, Len(s) - 1)) ELSE s

\* float(s) for an accepted text, as the shortest decimal numeral of its value
\* (what the worksheet shows for the number): "07.10" -> "7.1", "7." -> "7"
FloatValue(s) ==
  LET neg  == s[1] = "-"
      body == IF neg THEN Tail(s) ELSE s
      dot  == IF \E i \in 1..Len(body) : body[i] = "."
              THEN CHOOSE i \in 1..Len(body) : body[i] = "."
              ELSE Len(body) + 1
      ip   == DropLeadingZeros(IF dot = 1 THEN <<"0">> ELSE SubSeq(body, 1, dot - 1))
      fp   == DropTrailingZeros(SubSeq(body, dot + 1, Len(body)))
      mag  == IF fp = << >> THEN ip ELSE ip \o <<".">> \o fp
  IN  IF neg /\ mag # <<"0">> THEN <<"-">> \o mag ELSE mag

_parse_number(txt) ==
  LET t == KeepNumeric(Strip(txt))
  IN  IF t = << >> THEN None
      ELSE IF FloatOk(t) THEN Some(FloatValue(t)) ELSE None

\* re.match(r"(\d{1,2})/(\d{1,2})/(\d{2,4})$", txt): the three groups, or None.
\* "$" matches at the end of the text and before a newline that ends it.
DateGroups(txt) ==
  LET n == IF txt # << >> /\ txt[Len(txt)] = "\n" THEN {Len(txt), Len(txt) - 1}
           ELSE {Len(txt)}
      splits == {s \in (1..2) \X (1..2) \X (2..4) :
                   /\ s[1] + s[2] + s[3] + 2 \in n
                   /\ AllDigits(SubSeq(txt, 1, s[1]))
                   /\ txt[s[1] + 1] = "/"
                   /\ AllDigits(SubSeq(txt, s[1] + 2, s[1] + 1 + s[2]))
                   /\ txt[s[1] + s[2] + 2] = "/"
                   /\ AllDigits(SubSeq(txt, s[1] + s[2] + 3, s[1] + s[2] + 2 + s[3]))}
  IN  IF splits = {} THEN None
      ELSE LET s == CHOOSE s \in splits : TRUE
           IN  Some(<< SubSeq(txt, 1, s[1]),
                       SubSeq(txt, s[1] + 2, s[1] + 1 + s[2]),
                       SubSeq(txt, s[1] + s[2] + 3, s[1] + s[2] + 2 + s[3]) >>)

IsLeap(y) == (y % 4 = 0 /\ y % 100 # 0) \/ y % 400 = 0

DaysInMonth(y, m) ==
  IF m = 2 THEN (IF IsLeap(y) THEN 29 ELSE 28)
  ELSE IF m \in {4, 6, 9, 11} THEN 30 ELSE 31

\* whether datetime(year, month, day) constructs (else it raises ValueError)
DateOk(y, m, d) ==
  /\ y >= 1 /\ y <= 9999
  /\ m >= 1 /\ m <= 12
  /\ d >= 1 /\ d <= DaysInMonth(y, m)

\* d.strftime("%Y-%m-%d").  The C library decides whether %Y pads a year
\* below 1000 with zeros ("0123") or not ("123"): padYear is that choice.
FormatDate(y, m, d, padYear) ==
  (IF padYear THEN ZeroPad(ToStr(y), 4) ELSE ToStr(y))
    \o <<"-">> \o ZeroPad(ToStr(m), 2) \o <<"-">> \o ZeroPad(ToStr(d), 2)

\* the year the third group denotes: a two-digit year is windowed
YearOf(yy) ==
  IF Len(yy) = 2
  THEN (IF ToInt(yy) <= 69 THEN 2000 + ToInt(yy) ELSE 1900 + ToInt(yy))
  ELSE ToInt(yy)

_parse_wsj_date(txt, padYear) ==
  LET t == Strip(txt)
      g == DateGroups(t)
  IN  IF g = None THEN None
      ELSE LET year == YearOf(g[1][3])
               mm   == ToInt(g[1][1])
               dd   == ToInt(g[1][2])
           IN  IF DateOk(year, mm, dd)
               THEN Some(FormatDate(year, mm, dd, padYear))
               ELSE None

(* --------------------------- program constants ------------------------- *)

WSJ_URL ==
  <<"h","t","t","p","s",":","/","/","w","w","w",".","w","s","j",".","c","o","m",
    "/","m","a","r","k","e","t","-","d","a","t","a","/","q","u","o","t","e","s",
    "/","f","x","/","U","S","D","C","N","Y","/","h","i","s","t","o","r","i","c",
    "a","l","-","p","r","i","c","e","s","#">>

\* header = ["date","close","source","retrieved_at_utc"]
Header ==
  << <<"d","a","t","e">>, <<"c","l","o","s","e">>, <<"s","o","u","r","c","e">>,
     <<"r","e","t","r","i","e","v","e","d","_","a","t","_","u","t","c">> >>

\* the screenshot each except-block of fetch_latest_from_wsj saves
ScreenshotFile(handler) ==
  CASE handler = "handle_load" -> "wsj_load_error.png"
    [] handler = "handle_data" -> "wsj_data_load_error.png"
    [] handler = "handle_read" -> "wsj_read_row_error.png"

\* the copy-paste slip: the second except-block raising the first one's error
HandlerErrorCopied(handler) ==
  CASE handler = "handle_load" -> "load_error"
    [] handler = "handle_data" -> "load_error"
    [] handler = "handle_read" -> "read_row_error"

\* the RuntimeError each except-block raises
HandlerError(handler) ==
  CASE handler = "handle_load" -> "load_error"
    [] handler = "handle_data" -> "data_error"
    [] handler = "handle_read" -> "read_row_error"

\* the except-block that guards each browser operation of the fetcher
HandlerOf(op) ==
  CASE op \in {"goto", "wait_attached"} -> "handle_load"
    [] op \in {"scroll", "wait_visible"} -> "handle_data"
    [] op = "read_row" -> "handle_read"

(* ------------------------------ bounds --------------------------------- *)

\* runs of the script started in one behaviour
MaxRuns == 3

Procs == {"A", "B"}

\* what os.environ.get can give for a variable
EnvValues == {"unset", "empty", "set"}

\* what the file GOOGLE_APPLICATION_CREDENTIALS names can be
CredFileStates == {"missing", "invalid", "valid"}

\* the texts the first table row's date and close cells can hold
PageDateCells ==
  { <<" ","0","3","/","1","0","/","2","5">>, <<"3","/","1","1","/","2","5">>, <<"-">> }

PageCloseCells == { <<"7",".","1","7","8","2">>, <<"-">> }

\* the values datetime.now(timezone.utc).strftime("%Y-%m-%dT%H:%M:%SZ") can give
Timestamps ==
  { <<"2","0","2","5","-","0","3","-","1","0","T","2","1",":","0","0",":","0","0","Z">>,
    <<"2","0","2","5","-","0","3","-","1","1","T","2","1",":","0","0",":","0","0","Z">> }

D10 == <<"2","0","2","5","-","0","3","-","1","0">>
D11 == <<"2","0","2","5","-","0","3","-","1","1">>

OldRow(d) ==
  << d, <<"7",".","1","7","0","1">>, WSJ_URL,
     <<"2","0","2","5","-","0","3","-","1","0","T","2","1",":","0","0",":","0","0","Z">> >>

UpperHeader ==
  << <<"D","A","T","E">>, <<"C","l","o","s","e">>, <<"S","o","u","r","c","e">>,
     <<"R","e","t","r","i","e","v","e","d","_","A","t","_","U","T","C">> >>

OtherHeader == << <<"f","e","c","h","a">>, <<"c","i","e","r","r","e">> >>

\* the worksheets a behaviour starts from: [exists, rows]
InitSheets ==
  { [exists |-> FALSE, rows |-> << >>],
    [exists |-> TRUE,  rows |-> << >>],
    [exists |-> TRUE,  rows |-> << Header >>],
    [exists |-> TRUE,  rows |-> << Header, OldRow(D10) >>],
    [exists |-> TRUE,  rows |-> << UpperHeader, OldRow(D11) >>],
    [exists |-> TRUE,  rows |-> << OtherHeader, OldRow(D10), OldRow(D11) >>],
    [exists |-> TRUE,  rows |-> << OldRow(D10) >>] }

(* ------------------------------- state --------------------------------- *)

VARIABLES
  sheet_exists,          \* the spreadsheet has a worksheet "USDCNY"
  ws,                    \* its rows, each a sequence of cell texts
  shots,                 \* the screenshot files on disk
  pad_year,              \* whether this platform's strftime pads %Y
  runs,                  \* runs started so far
  pc,                    \* where each process is in main()
  sheet_id,              \* main: os.environ.get("SHEET_ID")
  service_account_file,  \* main: os.environ.get("GOOGLE_APPLICATION_CREDENTIALS")
  date_txt, close_txt,   \* fetch_latest_from_wsj: the cell texts read
  date_iso, close_val,   \* the parsed values (optional)
  current,               \* ensure_header: ws.row_values(1)
  rows,                  \* append_if_new: ws.get_all_values()
  inserted,              \* main: the result of append_if_new (optional)
  exit_code,             \* the process's exit status, -1 while it runs
  err,                   \* the exception that reached the entry point
  raised,                \* every exception raised in the run, caught or not
  log,                   \* the external operations the run performed, in order
  ws_before              \* the worksheet as it was when the run started

shared == << sheet_exists, ws, shots, pad_year, runs >>
locals == << sheet_id, service_account_file, date_txt, close_txt, date_iso,
             close_val, current, rows, inserted >>
status == << pc, exit_code, err, raised, log, ws_before >>
vars == << shared, locals, status >>

(* ------------------------ worksheet operations ------------------------- *)

\* ws.row_values(1)
row_values_1(sheet) == IF Len(sheet) >= 1 THEN sheet[1] ELSE << >>

\* the comparison of ensure_header made case-sensitive
HeaderMatchesExact(cur) == cur = Header

\* [c.lower() for c in current] == header
HeaderMatches(cur) == [i \in 1..Len(cur) |-> Lower(cur[i])] = Header

\* ws.clear() that leaves the rows in place
ClearedNothing(sheet) == sheet

\* ws.clear()
Cleared(sheet) == << >>

\* an append that writes the row twice
AppendedTwice(sheet, row) == Append(Append(sheet, row), row)

\* ws.append_row(row)
Appended(sheet, row) == Append(sheet, row)

\* the scan starting one row too low: [r[0] for r in rows[2:]]
existing_from_third(all_rows) ==
  IF Len(all_rows) > 2 THEN [i \in 1..(Len(all_rows) - 2) |-> all_rows[i + 2][1]]
  ELSE << >>

\* existing = [r[0] for r in rows[1:]] if len(rows) > 1 else []
existing(all_rows) ==
  IF Len(all_rows) > 1 THEN [i \in 1..(Len(all_rows) - 1) |-> all_rows[i + 1][1]]
  ELSE << >>

\* a membership test that never finds the date
NeverIn(d, seq) == FALSE

\* date_iso in existing
In(d, seq) == \E i \in 1..Len(seq) : seq[i] = d

\* the row append_if_new writes, as the worksheet gives it back: the ISO date
\* and the timestamp as entered, the number as its decimal numeral
NewRow(d, c, t) == << d, c, WSJ_URL, t >>

(* --------------------------- control helpers --------------------------- *)

\* the variant that only tests for None
FalsyUnsetOnly(v) == v = "unset"

\* "not x" for an environment value
Falsy(v) == v \in {"unset", "empty"}

\* an exception swallowed at the entry point: exit status 0
RaiseSwallowed(p, e) ==
  /\ pc' = [pc EXCEPT ![p] = "failed"]
  /\ err' = [err EXCEPT ![p] = e]
  /\ raised' = [raised EXCEPT ![p] = @ \cup {e}]
  /\ exit_code' = [exit_code EXCEPT ![p] = 0]

\* an uncaught exception: it reaches "except Exception" at the entry point,
\* which prints it and calls sys.exit(1)
Raise(p, e) ==
  /\ pc' = [pc EXCEPT ![p] = "failed"]
  /\ err' = [err EXCEPT ![p] = e]
  /\ raised' = [raised EXCEPT ![p] = @ \cup {e}]
  /\ exit_code' = [exit_code EXCEPT ![p] = 1]

Goto(p, where) ==
  /\ pc' = [pc EXCEPT ![p] = where]
  /\ UNCHANGED << exit_code, err, raised >>

\* the run's record of the external operation it performs in this step
Logged(p, op) == log' = [log EXCEPT ![p] = Append(@, op)]

(* ------------------------------- main() -------------------------------- *)

\* a new invocation of the script
Start(p) ==
  /\ pc[p] \in {"idle", "done", "failed"}
  /\ runs < MaxRuns
  /\ runs' = runs + 1
  /\ pc' = [pc EXCEPT ![p] = "main"]
  /\ sheet_id' = [sheet_id EXCEPT ![p] = "unset"]
  /\ service_account_file' = [service_account_file EXCEPT ![p] = "unset"]
  /\ date_txt' = [date_txt EXCEPT ![p] = << >>]
  /\ close_txt' = [close_txt EXCEPT ![p] = << >>]
  /\ date_iso' = [date_iso EXCEPT ![p] = None]
  /\ close_val' = [close_val EXCEPT ![p] = None]
  /\ current' = [current EXCEPT ![p] = << >>]
  /\ rows' = [rows EXCEPT ![p] = << >>]
  /\ inserted' = [inserted EXCEPT ![p] = None]
  /\ exit_code' = [exit_code EXCEPT ![p] = -1]
  /\ err' = [err EXCEPT ![p] = "none"]
  /\ raised' = [raised EXCEPT ![p] = {}]
  /\ log' = [log EXCEPT ![p] = << >>]
  /\ ws_before' = [ws_before EXCEPT ![p] = [exists |-> sheet_exists, rows |-> ws]]
  /\ UNCHANGED << sheet_exists, ws, shots, pad_year >>

\* main: read the two environment variables and check them
CheckEnv(p) ==
  /\ pc[p] = "main"
  /\ \E sid \in EnvValues, cred \in EnvValues :
       /\ sheet_id' = [sheet_id EXCEPT ![p] = sid]
       /\ service_account_file' = [service_account_file EXCEPT ![p] = cred]
       /\ IF Falsy(sid) \/ Falsy(cred)
          THEN Raise(p, "env_missing")
          ELSE Goto(p, "fetch")
  /\ UNCHANGED << shared, date_txt, close_txt, date_iso, close_val, current,
                  rows, inserted, log, ws_before >>

(* ------------------------ fetch_latest_from_wsj ------------------------ *)

\* os.path.exists(STATE_FILE)
CheckSession(p) ==
  /\ pc[p] = "fetch"
  /\ \E exists \in BOOLEAN :
       IF exists THEN Goto(p, "launch") ELSE Raise(p, "no_session_file")
  /\ UNCHANGED << shared, locals, log, ws_before >>

\* launch the browser, open the context with the session, open the page
Launch(p) ==
  /\ pc[p] = "launch"
  /\ Logged(p, "launch")
  /\ \E ok \in BOOLEAN :
       IF ok THEN Goto(p, "goto") ELSE Raise(p, "browser_error")
  /\ UNCHANGED << shared, locals, ws_before >>

\* one browser operation inside a try-block: on success the next one, on an
\* exception the block's except clause
BrowserStep(p, op, next) ==
  /\ pc[p] = op
  /\ Logged(p, op)
  /\ \E ok \in BOOLEAN :
       IF ok
       THEN Goto(p, next)
       ELSE /\ pc' = [pc EXCEPT ![p] = HandlerOf(op)]
            /\ raised' = [raised EXCEPT ![p] = @ \cup {"browser_exception"}]
            /\ UNCHANGED << exit_code, err >>
  /\ UNCHANGED << shared, locals, ws_before >>

\* page.goto(WSJ_URL, ...)
Navigate(p) == BrowserStep(p, "goto", "wait_attached")

\* table_container_locator.wait_for(state="attached", ...)
WaitAttached(p) == BrowserStep(p, "wait_attached", "scroll")

\* scroll_into_view_if_needed, wait_for_timeout, locate the table
Scroll(p) == BrowserStep(p, "scroll", "wait_visible")

\* table.locator("tbody tr").first.wait_for(state="visible", ...)
WaitVisible(p) == BrowserStep(p, "wait_visible", "read_row")

\* an except clause: save the block's screenshot, raise the block's error;
\* when the screenshot itself raises, that exception propagates instead
Handle(p, handler) ==
  /\ pc[p] = handler
  /\ Logged(p, handler)
  /\ \E ok \in BOOLEAN :
       IF ok
       THEN /\ shots' = shots \cup {ScreenshotFile(handler)}
            /\ Raise(p, HandlerError(handler))
       ELSE /\ shots' = shots
            /\ Raise(p, "screenshot_error")
  /\ UNCHANGED << sheet_exists, ws, pad_year, runs, locals, ws_before >>

HandleLoadError(p) == Handle(p, "handle_load")

HandleDataError(p) == Handle(p, "handle_data")

HandleReadError(p) == Handle(p, "handle_read")

\* read the first row's cells 0 and 4, each stripped
ReadRowFrom(p, dateCells, closeCells) ==
  /\ pc[p] = "read_row"
  /\ Logged(p, "read_row")
  /\ \/ \E d \in dateCells, c \in closeCells :
          /\ date_txt' = [date_txt EXCEPT ![p] = Strip(d)]
          /\ close_txt' = [close_txt EXCEPT ![p] = Strip(c)]
          /\ Goto(p, "parse")
     \/ /\ pc' = [pc EXCEPT ![p] = HandlerOf("read_row")]
        /\ raised' = [raised EXCEPT ![p] = @ \cup {"browser_exception"}]
        /\ UNCHANGED << exit_code, err, date_txt, close_txt >>
  /\ UNCHANGED << shared, sheet_id, service_account_file, date_iso, close_val,
                  current, rows, inserted, ws_before >>

ReadRow(p) == ReadRowFrom(p, PageDateCells, PageCloseCells)

\* parse both texts; either one without a result is a RuntimeError
Parse(p) ==
  /\ pc[p] = "parse"
  /\ date_iso' = [date_iso EXCEPT ![p] = _parse_wsj_date(date_txt[p], pad_year)]
  /\ close_val' = [close_val EXCEPT ![p] = _parse_number(close_txt[p])]
  /\ IF date_iso'[p] = None \/ close_val'[p] = None
     THEN Raise(p, "parse_error")
     ELSE Goto(p, "close")
  /\ UNCHANGED << shared, sheet_id, service_account_file, date_txt, close_txt,
                  current, rows, inserted, log, ws_before >>

\* browser.close() and the return to main
CloseBrowser(p) ==
  /\ pc[p] = "close"
  /\ Logged(p, "close")
  /\ \E ok \in BOOLEAN :
       IF ok THEN Goto(p, "client") ELSE Raise(p, "browser_error")
  /\ UNCHANGED << shared, locals, ws_before >>

(* --------------------------- the spreadsheet --------------------------- *)

\* get_gspread_client(service_account_file): the file is looked at only here
GetClient(p) ==
  /\ pc[p] = "client"
  /\ \E file \in CredFileStates :
       IF ~Falsy(service_account_file[p]) /\ file # "missing"
       THEN /\ Logged(p, "load_credentials")
            /\ IF file = "valid" THEN Goto(p, "open")
               ELSE Raise(p, "bad_credentials")
       ELSE /\ log' = log
            /\ Raise(p, "no_service_account")
  /\ UNCHANGED << shared, locals, ws_before >>

\* client.open_by_key(sheet_id): a call of the spreadsheet API, which may fail
OpenByKey(p) ==
  /\ pc[p] = "open"
  /\ Logged(p, "open_by_key")
  /\ \E ok \in BOOLEAN :
       IF ok THEN Goto(p, "worksheet") ELSE Raise(p, "api_error")
  /\ UNCHANGED << shared, locals, ws_before >>

\* sh.worksheet("USDCNY"); WorksheetNotFound is caught by main
Worksheet(p) ==
  /\ pc[p] = "worksheet"
  /\ Logged(p, "worksheet")
  /\ \E ok \in BOOLEAN :
       IF ~ok THEN Raise(p, "api_error")
       ELSE IF sheet_exists THEN Goto(p, "ensure_header")
       ELSE /\ pc' = [pc EXCEPT ![p] = "add_worksheet"]
            /\ raised' = [raised EXCEPT ![p] = @ \cup {"WorksheetNotFound"}]
            /\ UNCHANGED << exit_code, err >>
  /\ UNCHANGED << shared, locals, ws_before >>

\* sh.add_worksheet(title="USDCNY", ...): refused when the title exists
AddWorksheet(p) ==
  /\ pc[p] = "add_worksheet"
  /\ Logged(p, "add_worksheet")
  /\ \E ok \in BOOLEAN :
       IF ok /\ ~sheet_exists
       THEN /\ sheet_exists' = TRUE
            /\ ws' = << >>
            /\ Goto(p, "ensure_header")
       ELSE /\ UNCHANGED << sheet_exists, ws >>
            /\ Raise(p, "api_error")
  /\ UNCHANGED << shots, pad_year, runs, locals, ws_before >>

\* ensure_header: current = ws.row_values(1) and the comparison
EnsureHeaderRead(p) ==
  /\ pc[p] = "ensure_header"
  /\ Logged(p, "row_values")
  /\ \E ok \in BOOLEAN :
       IF ok
       THEN /\ current' = [current EXCEPT ![p] = row_values_1(ws)]
            /\ IF HeaderMatches(row_values_1(ws))
               THEN Goto(p, "append_if_new")
               ELSE Goto(p, "clear")
       ELSE /\ current' = current
            /\ Raise(p, "api_error")
  /\ UNCHANGED << shared, sheet_id, service_account_file, date_txt, close_txt,
                  date_iso, close_val, rows, inserted, ws_before >>

\* ensure_header: ws.clear()
EnsureHeaderClear(p) ==
  /\ pc[p] = "clear"
  /\ Logged(p, "clear")
  /\ \E ok \in BOOLEAN :
       IF ok
       THEN /\ ws' = Cleared(ws)
            /\ Goto(p, "write_header")
       ELSE /\ ws' = ws
            /\ Raise(p, "api_error")
  /\ UNCHANGED << sheet_exists, shots, pad_year, runs, locals, ws_before >>

\* ensure_header: ws.append_row(header)
EnsureHeaderWrite(p) ==
  /\ pc[p] = "write_header"
  /\ Logged(p, "append_header")
  /\ \E ok \in BOOLEAN :
       IF ok
       THEN /\ ws' = Appended(ws, Header)
            /\ Goto(p, "append_if_new")
       ELSE /\ ws' = ws
            /\ Raise(p, "api_error")
  /\ UNCHANGED << sheet_exists, shots, pad_year, runs, locals, ws_before >>

\* append_if_new: rows = ws.get_all_values() and the duplicate check
AppendIfNewRead(p) ==
  /\ pc[p] = "append_if_new"
  /\ Logged(p, "get_all_values")
  /\ \E ok \in BOOLEAN :
       IF ok
       THEN /\ rows' = [rows EXCEPT ![p] = ws]
            /\ IF In(date_iso[p][1], existing(ws))
               THEN /\ inserted' = [inserted EXCEPT ![p] = Some(FALSE)]
                    /\ Goto(p, "report")
               ELSE /\ inserted' = inserted
                    /\ Goto(p, "append_row")
       ELSE /\ UNCHANGED << rows, inserted >>
            /\ Raise(p, "api_error")
  /\ UNCHANGED << shared, sheet_id, service_account_file, date_txt, close_txt,
                  date_iso, close_val, current, ws_before >>

\* append_if_new: ws.append_row([date_iso, close_val, source, retrieved])
AppendIfNewAppend(p) ==
  /\ pc[p] = "append_row"
  /\ Logged(p, "append_data")
  /\ \E ok \in BOOLEAN, retrieved \in Timestamps :
       IF ok
       THEN /\ ws' = Appended(ws, NewRow(date_iso[p][1], close_val[p][1], retrieved))
            /\ inserted' = [inserted EXCEPT ![p] = Some(TRUE)]
            /\ Goto(p, "report")
       ELSE /\ UNCHANGED << ws, inserted >>
            /\ Raise(p, "api_error")
  /\ UNCHANGED << sheet_exists, shots, pad_year, runs, sheet_id,
                  service_account_file, date_txt, close_txt, date_iso,
                  close_val, current, rows, ws_before >>

\* main prints the outcome and returns: exit status 0
Report(p) ==
  /\ pc[p] = "report"
  /\ pc' = [pc EXCEPT ![p] = "done"]
  /\ exit_code' = [exit_code EXCEPT ![p] = 0]
  /\ UNCHANGED << shared, locals, err, raised, log, ws_before >>

(* --------------------------- specifications ---------------------------- *)

Fetch(p) ==
  \/ CheckSession(p) \/ Launch(p) \/ Navigate(p) \/ WaitAttached(p)
  \/ HandleLoadError(p) \/ Scroll(p) \/ WaitVisible(p) \/ HandleDataError(p)
  \/ ReadRow(p) \/ HandleReadError(p) \/ Parse(p) \/ CloseBrowser(p)

Upsert(p) ==
  \/ GetClient(p) \/ OpenByKey(p) \/ Worksheet(p) \/ AddWorksheet(p)
  \/ EnsureHeaderRead(p) \/ EnsureHeaderClear(p) \/ EnsureHeaderWrite(p)
  \/ AppendIfNewRead(p) \/ AppendIfNewAppend(p) \/ Report(p)

Run(p) == CheckEnv(p) \/ Fetch(p) \/ Upsert(p)

\* nothing read, parsed or raised yet
InitLocals ==
  /\ date_txt = [p \in Procs |-> << >>]
  /\ close_txt = [p \in Procs |-> << >>]
  /\ date_iso = [p \in Procs |-> None]
  /\ close_val = [p \in Procs |-> None]
  /\ current = [p \in Procs |-> << >>]
  /\ rows = [p \in Procs |-> << >>]
  /\ inserted = [p \in Procs |-> None]
  /\ exit_code = [p \in Procs |-> -1]
  /\ err = [p \in Procs |-> "none"]
  /\ raised = [p \in Procs |-> {}]

Init ==
  /\ \E s \in InitSheets :
       /\ sheet_exists = s.exists
       /\ ws = s.rows
       /\ ws_before = [p \in Procs |-> s]
  /\ shots = {}
  /\ pad_year \in BOOLEAN
  /\ runs = 0
  /\ pc = [p \in Procs |-> "idle"]
  /\ sheet_id = [p \in Procs |-> "unset"]
  /\ service_account_file = [p \in Procs |-> "unset"]
  /\ log = [p \in Procs |-> << >>]
  /\ InitLocals

\* the deployment the script is written for: one invocation at a time
Next == Start("A") \/ Run("A")

Spec == Init /\ [][Next]_vars

\* what a run has performed when fetch_latest_from_wsj returns
FetchLog ==
  << "launch", "goto", "wait_attached", "scroll", "wait_visible", "read_row", "close" >>

\* two invocations that have both fetched and parsed the page's first row and
\* now go to the same spreadsheet, with nothing to order their calls
InitConcurrent ==
  /\ \E s \in InitSheets :
       /\ sheet_exists = s.exists
       /\ ws = s.rows
       /\ ws_before = [p \in Procs |-> s]
  /\ shots = {}
  /\ pad_year \in BOOLEAN
  /\ runs = Cardinality(Procs)
  /\ pc = [p \in Procs |-> "client"]
  /\ sheet_id = [p \in Procs |-> "set"]
  /\ service_account_file = [p \in Procs |-> "set"]
  /\ \E cells \in [Procs -> PageDateCells \X PageCloseCells] :
       /\ date_txt = [p \in Procs |-> Strip(cells[p][1])]
       /\ close_txt = [p \in Procs |-> Strip(cells[p][2])]
       /\ date_iso = [p \in Procs |-> _parse_wsj_date(Strip(cells[p][1]), pad_year)]
       /\ close_val = [p \in Procs |-> _parse_number(Strip(cells[p][2]))]
       /\ \A p \in Procs : date_iso[p] # None /\ close_val[p] # None
  /\ current = [p \in Procs |-> << >>]
  /\ rows = [p \in Procs |-> << >>]
  /\ inserted = [p \in Procs |-> None]
  /\ exit_code = [p \in Procs |-> -1]
  /\ err = [p \in Procs |-> "none"]
  /\ raised = [p \in Procs |-> {}]
  /\ log = [p \in Procs |-> FetchLog]

NextConcurrent == \E p \in Procs : Upsert(p)

SpecConcurrent == InitConcurrent /\ [][NextConcurrent]_vars

\* two invocations inside fetch_latest_from_wsj, each with its own browser
InitFetch ==
  /\ \E s \in InitSheets :
       /\ sheet_exists = s.exists
       /\ ws = s.rows
       /\ ws_before = [p \in Procs |-> s]
  /\ shots = {}
  /\ pad_year \in BOOLEAN
  /\ runs = Cardinality(Procs)
  /\ pc = [p \in Procs |-> "fetch"]
  /\ sheet_id = [p \in Procs |-> "set"]
  /\ service_account_file = [p \in Procs |-> "set"]
  /\ log = [p \in Procs |-> << >>]
  /\ InitLocals

NextFetch == \E p \in Procs : Fetch(p)

SpecFetch == InitFetch /\ [][NextFetch]_vars

(* ----------------------- the parsers on many texts --------------------- *)

MonthTexts ==
  { << >>, <<"0">>, <<"2">>, <<"0","2">>, <<"4">>, <<"1","2">>, <<"1","3">>,
    <<"0","0","3">> }

DayTexts ==
  { << >>, <<"0">>, <<"5">>, <<"0","5">>, <<"2","9">>, <<"3","0">>, <<"3","1">>,
    <<"3","2">> }

YearTexts ==
  { << >>, <<"5">>, <<"0","0">>, <<"2","4">>, <<"6","9">>, <<"7","0">>, <<"9","9">>,
    <<"1","2","3">>, <<"0","0","0","0">>, <<"0","0","2","4">>, <<"1","9","0","0">>,
    <<"2","0","2","3">>, <<"2","0","2","4">>, <<"2","1","0","0">>,
    <<"2","0","2","4","5">> }

SeparatorPairs == { <<"/", "/">>, <<"-", "-">>, <<"/", "-">> }

Prefixes == { << >>, <<" ">>, <<"x">> }

Suffixes == { << >>, <<"\n">>, <<"x">> }

\* the date cell texts the parser is tried on
ParserDateCells ==
  { pre \o m \o << sep[1] >> \o d \o << sep[2] >> \o y \o post :
      pre \in Prefixes, m \in MonthTexts, sep \in SeparatorPairs, d \in DayTexts,
      y \in YearTexts, post \in Suffixes }

\* the close cell texts the parser is tried on
ParserCloseCells ==
  { <<"7",".","1","7","8","2">>, <<"$"," ","7",".","1","2","3","4">>,
    <<"-","3",".","5"," ">>, << >>, <<"a","b","c">>, <<"-">>,
    <<"1",".","2",".","3">>, <<"0","7",".","1","0">> }

\* a run that has the table's first row on screen, for any cell texts
InitParser ==
  /\ sheet_exists = TRUE
  /\ ws = << Header >>
  /\ ws_before = [p \in Procs |-> [exists |-> TRUE, rows |-> << Header >>]]
  /\ shots = {}
  /\ pad_year \in BOOLEAN
  /\ runs = 1
  /\ pc = [p \in Procs |-> IF p = "A" THEN "read_row" ELSE "idle"]
  /\ sheet_id = [p \in Procs |-> IF p = "A" THEN "set" ELSE "unset"]
  /\ service_account_file = [p \in Procs |-> IF p = "A" THEN "set" ELSE "unset"]
  /\ log = [p \in Procs |->
              IF p = "A" THEN SubSeq(FetchLog, 1, 5) ELSE << >>]
  /\ InitLocals

ReadRowAny(p) == ReadRowFrom(p, ParserDateCells, ParserCloseCells)

NextParser == ReadRowAny("A") \/ Parse("A")

SpecParser == InitParser /\ [][NextParser]_vars

(* ------------------------------- C9 ------------------------------------ *)

\* the texts of the form M/D/YY or M/D/YYYY: one or two digits, a slash, one
\* or two digits, a slash, and a year of exactly two or exactly four digits
ClaimedForms ==
  { m \o <<"/">> \o d \o <<"/">> \o y :
      m \in { x \in MonthTexts : Len(x) \in {1, 2} },
      d \in { x \in DayTexts : Len(x) \in {1, 2} },
      y \in { x \in YearTexts : Len(x) \in {2, 4} } }

\* the result the claim gives a text: the zero-padded day for a text of one of
\* the two forms that names a calendar day, no result for any other text
ClaimedDate(txt) ==
  IF txt \notin ClaimedForms THEN None
  ELSE LET cut1 == CHOOSE i \in 1..Len(txt) : txt[i] = "/"
           cut2 == CHOOSE i \in (cut1 + 1)..Len(txt) : txt[i] = "/"
           m    == ToInt(SubSeq(txt, 1, cut1 - 1))
           d    == ToInt(SubSeq(txt, cut1 + 1, cut2 - 1))
           yy   == SubSeq(txt, cut2 + 1, Len(txt))
           y    == IF Len(yy) = 4 THEN ToInt(yy)
                   ELSE IF ToInt(yy) <= 69 THEN 2000 + ToInt(yy)
                   ELSE 1900 + ToInt(yy)
       IN  IF y >= 1 /\ m \in 1..12 /\ d >= 1 /\ d <= DaysInMonth(y, m)
           THEN Some(ZeroPad(ToStr(y), 4) \o <<"-">> \o ZeroPad(ToStr(m), 2)
                       \o <<"-">> \o ZeroPad(ToStr(d), 2))
           ELSE None

Parsed(p) == pc[p] = "close" \/ err[p] = "parse_error"

\* C9: for every text of the form M/D/YY or M/D/YYYY that names a calendar
\* day, _parse_wsj_date gives that day as zero-padded YYYY-MM-DD (a two-digit
\* year up to 69 in the 2000s, above 69 in the 1900s), and for every other
\* text it gives no result.
C9_DateParserAsClaimed ==
  \A p \in Procs : Parsed(p) => date_iso[p] = ClaimedDate(date_txt[p])

\* C9 on the texts of the two forms alone, on a platform whose strftime pads
\* the year: there the parser does give the claimed day
C9_ClaimedFormsParsed ==
  \A p \in Procs :
    (Parsed(p) /\ pad_year /\ date_txt[p] \in ClaimedForms)
      => date_iso[p] = ClaimedDate(date_txt[p])

(* --------------------- vocabulary of the claims ------------------------ *)

\* sheet has a row below the header whose first cell is d
Present(d, sheet) == \E i \in 2..Len(sheet) : sheet[i][1] = d

\* the rows of sheet below the header whose first cell is d
RowsFor(d, sheet) == {i \in 2..Len(sheet) : sheet[i][1] = d}

\* row 1 of sheet exists and reads, lower-cased, as the header
CanonicalRow1(sheet) ==
  /\ Len(sheet) >= 1
  /\ [i \in 1..Len(sheet[1]) |-> Lower(sheet[1][i])] = Header

\* the row process p appends: its date, its close, the source URL, a timestamp
IsRowOf(p, row) ==
  \E t \in Timestamps : row = << date_iso[p][1], close_val[p][1], WSJ_URL, t >>

Ops(p) == {log[p][i] : i \in 1..Len(log[p])}

NoRepeat(s) == \A i, j \in 1..Len(s) : i # j => s[i] # s[j]

SheetOps ==
  {"open_by_key", "worksheet", "add_worksheet", "row_values", "clear",
   "append_header", "get_all_values", "append_data"}

BrowserOps ==
  {"launch", "goto", "wait_attached", "scroll", "wait_visible", "read_row",
   "close", "handle_load", "handle_data", "handle_read"}

Handlers == {"handle_load", "handle_data", "handle_read"}

(* ------------------------------- C1 ------------------------------------ *)

\* C1: over sequential, non-overlapping runs the rows below the header hold
\* at most one row per distinct date in column 1.
C1_UniqueDates ==
  \A i, j \in 2..Len(ws) : i # j => ws[i][1] # ws[j][1]

\* two dates are on the sheet and the last run skipped a date already there
C1_Witness ==
  /\ pc["A"] = "done" /\ inserted["A"] = Some(FALSE)
  /\ runs >= 2 /\ Len(ws) >= 3
  /\ Present(date_iso["A"][1], ws)

(* ------------------------------- C2 ------------------------------------ *)

\* C2: when the date is absent from column 1 of the rows after the header,
\* append_if_new appends exactly one row [date, close, source, timestamp] and
\* returns True, after which the date has exactly one row; when the date is
\* present (as it is for a second call with the same date) it returns False
\* and leaves every row unchanged.
C2_AppendIfNewUpsert ==
  [][\A p \in Procs :
       /\ (pc[p] = "append_if_new" /\ pc'[p] \notin {"append_if_new", "failed"})
            => /\ ws' = ws
               /\ IF Present(date_iso[p][1], ws)
                  THEN pc'[p] = "report" /\ inserted'[p] = Some(FALSE)
                  ELSE pc'[p] = "append_row"
       /\ (pc[p] = "append_row" /\ pc'[p] = "report")
            => /\ ~Present(date_iso[p][1], ws)
               /\ Len(ws') = Len(ws) + 1
               /\ SubSeq(ws', 1, Len(ws)) = ws
               /\ IsRowOf(p, ws'[Len(ws')])
               /\ inserted'[p] = Some(TRUE)
               /\ Cardinality(RowsFor(date_iso[p][1], ws')) = 1
               /\ Present(date_iso[p][1], ws')]_vars

\* a second call: the run found the row an earlier run of the script appended
C2_Witness ==
  /\ pc["A"] = "done" /\ inserted["A"] = Some(FALSE)
  /\ ws = ws_before["A"].rows
  /\ \E i \in 2..Len(ws) : IsRowOf("A", ws[i])

(* ------------------------------- C3 ------------------------------------ *)

\* C3: when row 1 is absent or its lower-cased values differ from the header,
\* ensure_header clears the whole worksheet and writes the canonical header
\* as row 1, before append_if_new appends in the same run; at the moment a
\* data row is appended, row 1 is the header.
C3_HeaderBeforeData ==
  [][\A p \in Procs :
       /\ (pc[p] = "ensure_header" /\ pc'[p] \notin {"ensure_header", "failed"})
            => (pc'[p] = "clear" <=> ~CanonicalRow1(ws))
       /\ (pc[p] = "clear" /\ pc'[p] = "write_header") => ws' = << >>
       /\ (pc[p] = "write_header" /\ pc'[p] = "append_if_new") => ws' = << Header >>
       /\ (pc[p] = "append_row" /\ pc'[p] = "report")
            => /\ CanonicalRow1(ws)
               /\ ws'[1] = ws[1]
               /\ ("clear" \in Ops(p) => ws = << Header >>)
               /\ (~CanonicalRow1(ws_before[p].rows) => ws = << Header >>)]_vars

\* a run found data under a foreign header and ended with the header and its
\* own row alone
C3_Witness ==
  /\ pc["A"] = "done" /\ inserted["A"] = Some(TRUE)
  /\ "clear" \in Ops("A")
  /\ Len(ws_before["A"].rows) >= 2
  /\ Len(ws) = 2 /\ ws[1] = Header /\ IsRowOf("A", ws[2])

(* ------------------------------- C10 ----------------------------------- *)

\* C10: when row 1 already equals the header case-insensitively, ensure_header
\* clears nothing and writes nothing, so every row is unchanged; when
\* ensure_header has returned, row 1 is such a row, so applying it again
\* changes nothing.
C10_EnsureHeaderFrame ==
  /\ [][\A p \in Procs :
          (pc[p] = "ensure_header" /\ CanonicalRow1(ws))
            => /\ ws' = ws /\ sheet_exists' = sheet_exists
               /\ pc'[p] \in {"ensure_header", "append_if_new", "failed"}]_vars
  /\ [](\A p \in Procs : pc[p] = "append_if_new" => CanonicalRow1(ws))

\* ensure_header has returned and the upper-case header and the row under it
\* are as they were
C10_Witness ==
  /\ pc["A"] = "append_if_new"
  /\ ws = ws_before["A"].rows
  /\ Len(ws) >= 2 /\ ws[1] = UpperHeader

(* ------------------------------- C4 ------------------------------------ *)

\* the worksheet's rows are as they were when p's run started
Untouched(p) == ws = ws_before[p].rows

\* the worksheet is `front` followed by the one row of p's run
OneRowAfter(p, front) ==
  /\ Len(ws) = Len(front) + 1
  /\ SubSeq(ws, 1, Len(front)) = front
  /\ IsRowOf(p, ws[Len(ws)])

\* C4 as stated: whatever step fails, a run ends with exactly one data row
\* appended, with the row skipped as a duplicate, or with nothing written at
\* all (the header a successful run may have had to write is not held
\* against it).
C4_NoPartialSuccess ==
  \A p \in Procs :
    /\ pc[p] = "failed" => Untouched(p)
    /\ pc[p] = "done" =>
         \/ inserted[p] = Some(FALSE) /\ Untouched(p)
         \/ /\ inserted[p] = Some(TRUE)
            /\ OneRowAfter(p, ws_before[p].rows) \/ OneRowAfter(p, << Header >>)

\* C4 amended: a run that ends normally has appended exactly one data row
\* (below the rows it found when row 1 matched the header, below the rewritten
\* header otherwise) or skipped a duplicate and written nothing; a run that
\* fails has written nothing, unless row 1 was absent or did not match the
\* header when the run started: then the failed run may leave the worksheet
\* cleared of every row it held, empty or holding only the header.
C4_OutcomesOfARun ==
  \A p \in Procs :
    /\ pc[p] = "failed" =>
         \/ Untouched(p)
         \/ /\ ~CanonicalRow1(ws_before[p].rows)
            /\ sheet_exists
            /\ ws \in { << >>, << Header >> }
    /\ pc[p] = "done" =>
         \/ inserted[p] = Some(FALSE) /\ Untouched(p)
         \/ /\ inserted[p] = Some(TRUE)
            /\ sheet_exists
            /\ IF CanonicalRow1(ws_before[p].rows)
               THEN OneRowAfter(p, ws_before[p].rows)
               ELSE OneRowAfter(p, << Header >>)

\* a failed run that appended nothing and left the worksheet, which held data
\* rows, empty
C4_Witness ==
  /\ pc["A"] = "failed" /\ err["A"] = "api_error"
  /\ Len(ws_before["A"].rows) >= 2
  /\ ws = << >>

(* ------------------------------- C6 ------------------------------------ *)

\* the part of C6 that does not depend on which exceptions count: a failed
\* run has exit status 1 and an ended run that did not fail has 0, no
\* operation is performed twice in a run, and a run that failed in the fetch
\* or the parse performed no spreadsheet operation
C6_Common(p) ==
  /\ pc[p] = "failed" => exit_code[p] = 1 /\ err[p] \in raised[p]
  /\ pc[p] = "done" => exit_code[p] = 0
  /\ pc[p] \notin {"failed", "done"} => exit_code[p] = -1
  /\ NoRepeat(log[p])
  /\ err[p] \in {"no_session_file", "browser_error", "load_error", "data_error",
                 "read_row_error", "screenshot_error", "parse_error"}
       => Ops(p) \cap SheetOps = {}

\* C6 as stated: every failure in a run propagates to the entry point and
\* ends the process with a non-zero exit status: once any exception has been
\* raised the run is failing or failed, and a run that ends with status 0
\* raised none; no step is attempted twice; after a fetch or parse failure no
\* spreadsheet operation is performed.
C6_EveryFailureFatal ==
  \A p \in Procs :
    /\ C6_Common(p)
    /\ raised[p] # {} => pc[p] \in Handlers \cup {"failed"}

\* C6 amended: every failure except the worksheet lookup's WorksheetNotFound,
\* which main catches and answers by creating the worksheet, propagates to
\* the entry point and ends the process with exit status 1; the rest as
\* stated.
C6_FailuresFatalButNotFound ==
  \A p \in Procs :
    /\ C6_Common(p)
    /\ raised[p] \ {"WorksheetNotFound"} # {} => pc[p] \in Handlers \cup {"failed"}
    /\ "WorksheetNotFound" \in raised[p] => "add_worksheet" \in Ops(p) \/ pc[p] = "add_worksheet"

\* a run went on after WorksheetNotFound, created the worksheet, and then
\* failed on a spreadsheet error with exit status 1
C6_Witness ==
  /\ pc["A"] = "failed" /\ exit_code["A"] = 1 /\ err["A"] = "api_error"
  /\ "WorksheetNotFound" \in raised["A"]
  /\ "row_values" \in Ops("A")

(* ------------------------------- C7 ------------------------------------ *)

\* C7 as stated: a run that fails for missing configuration (an environment
\* variable, or a usable credential file) has launched no browser, navigated
\* no page and made no spreadsheet call.
C7_ConfigFatalBeforeNetwork ==
  \A p \in Procs :
    err[p] \in {"env_missing", "no_service_account", "bad_credentials"}
      => Ops(p) \cap (BrowserOps \cup SheetOps) = {}

\* C7 amended: a SHEET_ID or GOOGLE_APPLICATION_CREDENTIALS variable that is
\* unset or empty is fatal before any network activity; a credential file
\* that is missing or unusable is detected only in get_gspread_client, after
\* the browser was launched and the page fetched, and before any spreadsheet
\* call.
C7_EnvBeforeNetworkFileBeforeSheet ==
  \A p \in Procs :
    /\ err[p] = "env_missing" => log[p] = << >>
    /\ (pc[p] \notin {"idle", "main"}
          /\ (sheet_id[p] \in {"unset", "empty"}
                \/ service_account_file[p] \in {"unset", "empty"}))
         => pc[p] = "failed" /\ err[p] = "env_missing"
    /\ err[p] \in {"no_service_account", "bad_credentials"}
         => /\ Ops(p) \cap SheetOps = {}
            /\ {"launch", "goto", "read_row", "close"} \subseteq Ops(p)

\* a run found the credential file missing after it had fetched the page
C7_Witness ==
  /\ pc["A"] = "failed" /\ err["A"] = "no_service_account"
  /\ "goto" \in Ops("A")

(* ------------------------------- C5 ------------------------------------ *)

\* some date has two rows below the header
HasDuplicate == \E i, j \in 2..Len(ws) : i # j /\ ws[i][1] = ws[j][1]

\* C5: nothing but each run's own earlier read stands between it and its
\* append: a run appends whenever the rows it read did not hold its date
\* below the header, whatever the worksheet holds by then; and two rows for
\* one date come about only by both runs appending the same date.  (That such
\* a state is reached is C5_Witness.)
C5_CheckThenAppend ==
  /\ \A p \in Procs :
       pc[p] = "append_row" => ~Present(date_iso[p][1], rows[p])
  /\ HasDuplicate =>
       /\ \A p \in Procs : inserted[p] = Some(TRUE)
       /\ \A p, q \in Procs : date_iso[p] = date_iso[q]

\* both runs read the rows before either appended, both found the date
\* absent, both appended: the date has two rows
C5_Witness ==
  /\ \A p \in Procs : pc[p] = "done" /\ inserted[p] = Some(TRUE)
                        /\ rows[p] = << Header >>
  /\ Len(ws) = 3 /\ ws[1] = Header
  /\ ws[2][1] = ws[3][1]
  /\ \A p \in Procs : date_iso[p][1] = ws[2][1]

(* ------------------------------- C8 ------------------------------------ *)

\* p's run failed in one of the fetcher's guarded operations
StageFailed(p) ==
  /\ pc[p] = "failed"
  /\ Len(log[p]) >= 2
  /\ log[p][Len(log[p])] \in Handlers

\* the operation that failed
FailedOp(p) == log[p][Len(log[p]) - 1]

\* the stage of the claim each guarded operation belongs to
StageOf(op) ==
  CASE op = "goto" -> "navigation"
    [] op = "wait_attached" -> "attachment"
    [] op \in {"scroll", "wait_visible"} -> "visibility"
    [] op = "read_row" -> "row_read"

\* the try-block of the code each guarded operation belongs to
BlockOf(op) ==
  CASE op \in {"goto", "wait_attached"} -> "load"
    [] op \in {"scroll", "wait_visible"} -> "data"
    [] op = "read_row" -> "read"

\* the operations up to and including op, in the fetcher's order
UpTo(op) ==
  LET i == CHOOSE k \in 1..Len(FetchLog) : FetchLog[k] = op
  IN  SubSeq(FetchLog, 1, i)

\* no stage after the failed one was executed
StoppedAtFailure(p) ==
  SubSeq(log[p], 1, Len(log[p]) - 1) = UpTo(FailedOp(p))

StageErrors == {"load_error", "data_error", "read_row_error"}

\* C8 as stated: a failure in each of the four stages captures a screenshot
\* and raises a runtime error that differs from the error of every other
\* stage; later stages are not executed.  (Runs whose screenshot could not be
\* taken are left out of the comparison.)
C8_DistinctErrorPerStage ==
  /\ \A p \in Procs :
       (StageFailed(p) /\ err[p] # "screenshot_error") =>
         /\ err[p] \in StageErrors
         /\ shots # {}
         /\ StoppedAtFailure(p)
  /\ \A p, q \in Procs :
       (StageFailed(p) /\ StageFailed(q)
          /\ err[p] # "screenshot_error" /\ err[q] # "screenshot_error"
          /\ StageOf(FailedOp(p)) # StageOf(FailedOp(q)))
         => err[p] # err[q]

\* C8 amended: the fetcher has three try-blocks, not four; navigation and
\* container attachment share the first.  A failure in a block attempts that
\* block's own screenshot and then raises that block's own runtime error,
\* which differs from the other two blocks' errors (a navigation failure and
\* an attachment failure raise the same one); when the screenshot itself
\* fails, its exception propagates in place of the block's error.  Later
\* stages are not executed.
C8_DistinctErrorPerBlock ==
  /\ \A p \in Procs :
       StageFailed(p) =>
         /\ StoppedAtFailure(p)
         /\ \/ err[p] = "screenshot_error"
            \/ /\ err[p] \in StageErrors
               /\ \/ BlockOf(FailedOp(p)) = "load" /\ err[p] = "load_error"
                       /\ "wsj_load_error.png" \in shots
                  \/ BlockOf(FailedOp(p)) = "data" /\ err[p] = "data_error"
                       /\ "wsj_data_load_error.png" \in shots
                  \/ BlockOf(FailedOp(p)) = "read" /\ err[p] = "read_row_error"
                       /\ "wsj_read_row_error.png" \in shots
  /\ \A p, q \in Procs :
       (StageFailed(p) /\ StageFailed(q)
          /\ err[p] \in StageErrors /\ err[q] \in StageErrors)
         => (err[p] = err[q] <=> BlockOf(FailedOp(p)) = BlockOf(FailedOp(q)))

\* one run failed in the navigation, the other in the attachment, and both
\* raised the same error after the same screenshot
C8_Witness ==
  /\ StageFailed("A") /\ StageFailed("B")
  /\ FailedOp("A") = "goto" /\ FailedOp("B") = "wait_attached"
  /\ err["A"] = "load_error" /\ err["B"] = "load_error"
  /\ "wsj_load_error.png" \in shots
====
